---- MODULE Spec2Model ----
(***************************************************************************)
(* Model of the movie-ratings analysis utilities (src/utils/utils.py,      *)
(* src/filters.py, src/utils/inisight.py).  Every function is stateless:   *)
(* a behaviour is one call of one function on inputs drawn from bounded    *)
(* sets (Init), followed by the step that runs the function body.          *)
(*                                                                         *)
(* Data frames are sequences of records (row order = frame order).         *)
(* Ratings are in half-star units (4.0 stars = 8), so sums are exact; a    *)
(* mean is the reduced fraction [num, den] of sum and count.               *)
(* Genre strings are tuples of one-character strings so that               *)
(* Series.str.contains, which searches a regular expression, can be        *)
(* computed character by character.                                        *)
(***************************************************************************)
EXTENDS Integers, Sequences, FiniteSets, TLC

VARIABLES
    pc,             \* "call" before the body runs, "done" after, "again" after a re-filter
    fn,             \* the function called
    df,             \* the frame argument (df / dataset / summary)
    movies_df,      \* aggregate_data's catalog; generate_plots' movies_df local
    tags_df,        \* get_tags_per_movieId's tags_df
    lo, hi,         \* start_date, end_date / prod_start, prod_end / movieId / prod_year, top
    genre,          \* find_closest_match_ut's genre
    ret,            \* the value returned (<<>> when the call raised)
    exc,            \* "none" or the exception the call raised
    movies_df_copy, \* aggregate_data's local frame when the call ended
    filter_df,      \* find_closest_match_ut's local frame when the call ended
    refiltered      \* filter_time_interval applied to its own result

vars == <<pc, fn, df, movies_df, tags_df, lo, hi, genre,
          ret, exc, movies_df_copy, filter_df, refiltered>>

(* ---------------------------- bounds ---------------------------------- *)
MaxLen == 3
MaxCatalog == 2
MaxDataset == 2
MaxMovieId == 2
MaxTime == 3
MaxViews == 2

(* ---------------------------- helpers --------------------------------- *)
Min(a, b) == IF a < b THEN a ELSE b

SeqsUpTo(S, n) == UNION {[1..k -> S] : k \in 0..n}

Range(s) == {s[i] : i \in DOMAIN s}

RECURSIVE Gcd(_, _)
Gcd(a, b) == IF b = 0 THEN a ELSE Gcd(b, a % b)

RECURSIVE SumRatings(_)
SumRatings(s) == IF s = <<>> THEN 0 ELSE s[1].rating + SumRatings(Tail(s))

RECURSIVE Flatten(_)
Flatten(ss) == IF ss = <<>> THEN <<>> ELSE ss[1] \o Flatten(Tail(ss))

Perms(n) == {p \in [1..n -> 1..n] : \A i, j \in 1..n : p[i] = p[j] => i = j}

(* ------------------------- filter module ------------------------------ *)
(* DataFrame.sort_values(by=..., ascending=False) with the default         *)
(* kind="quicksort": the result is some arrangement of the rows with the   *)
(* key non-increasing; quicksort is not a stable algorithm, so the order   *)
(* of rows with equal keys is whatever the build's sort produces.          *)
sort_values_desc(frame, by) ==
    {[i \in 1..Len(frame) |-> frame[p[i]]] : p \in
        {q \in Perms(Len(frame)) :
            \A i \in 1..(Len(frame) - 1) : frame[q[i]][by] >= frame[q[i + 1]][by]}}

time_mask_strict(r, start_date, end_date) ==
    r.datetime_rating > start_date /\ r.datetime_rating <= end_date

time_mask(r, start_date, end_date) ==
    r.datetime_rating >= start_date /\ r.datetime_rating <= end_date

filter_time_interval_unsorted(frame, start_date, end_date) ==
    {SelectSeq(frame, LAMBDA r : time_mask(r, start_date, end_date))}

(* the set of frames the call can return (one per tie order of the sort) *)
filter_time_interval(frame, start_date, end_date) ==
    sort_values_desc(
        SelectSeq(frame, LAMBDA r : time_mask(r, start_date, end_date)),
        "datetime_rating")

filter_production_date_open(frame, prod_start, prod_end) ==
    SelectSeq(frame, LAMBDA r : r.movie_year >= prod_start /\ r.movie_year < prod_end)

filter_production_date(frame, prod_start, prod_end) ==
    SelectSeq(frame, LAMBDA r : r.movie_year >= prod_start /\ r.movie_year <= prod_end)

(* ----------------------- aggregation module --------------------------- *)
get_tags_per_movieId(movieId, tags) ==
    LET sel == SelectSeq(tags, LAMBDA t : t.movieId = movieId)
    IN  [i \in 1..Len(sel) |-> sel[i].tag]

(* A Python call binds positional arguments to the parameters; a call     *)
(* with fewer arguments than parameters without defaults raises TypeError. *)
get_tags_per_movieId_call(args) ==
    IF Len(args) = 2
    THEN [exc |-> "none", val |-> get_tags_per_movieId(args[1], args[2])]
    ELSE [exc |-> "TypeError", val |-> <<>>]

groups(frame) == {r.movieId : r \in Range(frame)}

group(frame, m) == SelectSeq(frame, LAMBDA r : r.movieId = m)

count_views_short(frame) ==
    [m \in groups(frame) |-> Cardinality({r.rating : r \in Range(group(frame, m))})]

(* df.groupby("movieId")["movieId"].count() *)
count_views(frame) == [m \in groups(frame) |-> Len(group(frame, m))]

mean(s) ==
    LET t == SumRatings(s)
        g == Gcd(t, Len(s))
    IN  [num |-> t \div g, den |-> Len(s) \div g]

(* df.groupby("movieId")["rating"].mean() *)
rating_means(frame) == [m \in groups(frame) |-> mean(group(frame, m))]

(* pd.merge(left, right, on="movieId"): inner join, left row order; right  *)
(* is keyed by movieId (one row per key), so each left row with a key in   *)
(* right yields one row                                                    *)
merge(left, right) == SelectSeq(left, LAMBDA r : r.movieId \in DOMAIN right)

merged(frame, catalog) ==
    LET cv == count_views(frame)
        rm == rating_means(frame)
        m1 == merge(catalog, cv)
        m2 == merge(m1, rm)
    IN  [i \in 1..Len(m2) |->
            [movieId |-> m2[i].movieId, title |-> m2[i].title,
             total_views |-> cv[m2[i].movieId],
             average_rating |-> rm[m2[i].movieId]]]

(* Series.apply calls the lambda once per element (not at all on an empty  *)
(* Series); the lambda calls get_tags_per_movieId(x) with one argument.    *)
aggregate_data(frame, catalog) ==
    LET m == merged(frame, catalog)
        calls == [i \in 1..Len(m) |-> get_tags_per_movieId_call(<<m[i].movieId>>)]
    IN  IF \E i \in 1..Len(m) : calls[i].exc # "none"
        THEN [exc |-> "TypeError", val |-> <<>>, movies_df_copy |-> m]
        ELSE [exc |-> "none",
              val |-> [i \in 1..Len(m) |->
                        [movieId |-> m[i].movieId, title |-> m[i].title,
                         total_views |-> m[i].total_views,
                         average_rating |-> m[i].average_rating,
                         tags |-> calls[i].val]],
              movies_df_copy |-> m]

aggregate_data_call(args) ==
    IF Len(args) = 2
    THEN aggregate_data(args[1], args[2])
    ELSE [exc |-> "TypeError", val |-> <<>>, movies_df_copy |-> <<>>]

(* ----------------------- presentation module -------------------------- *)
DefaultTop == 20

head(frame, n) == SubSeq(frame, 1, Min(n, Len(frame)))

top_selection_unsorted(summary, top) == {head(summary, top)}

(* the top-N selection of generate_plots: the set of possible selections *)
top_selection(summary, top) ==
    {head(s, top) : s \in sort_values_desc(summary, "total_views")}

(* WordCloud.generate raises ValueError when the joined tag text holds no  *)
(* word; the figure itself is not part of the state                        *)
generate_plots(summary, top) ==
    {[movies_df |-> sel,
      exc |-> IF Flatten([i \in 1..Len(sel) |-> sel[i].tags]) = <<>>
              THEN "ValueError" ELSE "none"] : sel \in top_selection(summary, top)}

(* ----------------------- insight orchestrator ------------------------- *)
Comedy == <<"C", "o", "m", "e", "d", "y">>
Drama == <<"D", "r", "a", "m", "a">>
RomanticComedy == <<"R", "o", "m", "a", "n", "t", "i", "c", " ">> \o Comedy
ComAnydy == <<"C", "o", "m", ".", "d", "y">>
NaN == <<"NaN">>

(* re.search(pat, s) for a pattern of literal characters and ".", which    *)
(* matches any character                                                   *)
match_at(pat, s, k) ==
    /\ k + Len(pat) - 1 <= Len(s)
    /\ \A j \in 1..Len(pat) : pat[j] = "." \/ pat[j] = s[k + j - 1]

str_contains(s, pat) == \E k \in 1..(Len(s) + 1) : match_at(pat, s, k)

(* DataFrame.explode("genres"): one row per list element, in order; an     *)
(* empty list yields one row whose genres is NaN                           *)
explode(frame) ==
    Flatten([i \in 1..Len(frame) |->
        IF frame[i].genres = <<>>
        THEN <<[frame[i] EXCEPT !.genres = NaN]>>
        ELSE [j \in 1..Len(frame[i].genres) |->
                [frame[i] EXCEPT !.genres = frame[i].genres[j]]]])

decade_of(prod_year) == (prod_year \div 10) * 10

(* the orchestrator: str.contains gives NaN on a NaN genre and indexing a  *)
(* frame by a mask holding NaN raises ValueError; aggregate_data is called *)
(* with the single argument filter_df                                      *)
find_closest_match_ut(g, prod_year, dataset) ==
    LET decade == decade_of(prod_year)
        f1 == filter_production_date(dataset, decade, decade + 9)
        f2 == explode(f1)
        f3 == SelectSeq(f2, LAMBDA r : str_contains(r.genres, g))
        agg == aggregate_data_call(<<f3>>)
    IN  IF \E i \in 1..Len(f2) : f2[i].genres = NaN
        THEN {[exc |-> "ValueError", ret |-> <<>>, filter_df |-> f2]}
        ELSE IF agg.exc # "none"
        THEN {[exc |-> agg.exc, ret |-> <<>>, filter_df |-> f3]}
        ELSE {[exc |-> p.exc,
               ret |-> IF p.exc = "none" THEN <<f3, agg.val>> ELSE <<>>,
               filter_df |-> f3] : p \in generate_plots(agg.val, DefaultTop)}

(* ----------------------------- inputs --------------------------------- *)
Ratings == {8, 10}
UserIds == {1, 2}
Years == {1989, 1990, 1999}
ProdYears == {1985, 1990}
GenreLists == {<<>>, <<Comedy>>, <<Drama>>, <<Comedy, RomanticComedy>>}
Queries == {Comedy, ComAnydy}
TagsOf(m) == IF m = 1 THEN <<>> ELSE <<"funny">>

TimedRows == [userId : UserIds, movieId : {1}, rating : {8},
              datetime_rating : 1..MaxTime]
YearRows == [movieId : {1}, title : {"A", "B"}, movie_year : Years,
             genres : {<<Comedy>>}]
TagRows == [movieId : 1..MaxMovieId, tag : {"funny", "sad"}]
RatingRows == [userId : {1}, movieId : 1..MaxMovieId, rating : Ratings,
               datetime_rating : {1}]
CatalogRows == [movieId : 1..MaxMovieId, title : {"A"}]
SummaryRows == {[movieId |-> m, total_views |-> v, tags |-> TagsOf(m)] :
                    m \in 1..MaxMovieId, v \in 1..MaxViews}
DatasetRows == [movieId : 1..MaxMovieId, movie_year : Years,
                genres : GenreLists, rating : {8}]

(* the data set of the end-to-end example: movie 1 (1990, Comedy) rated    *)
(* 4.0 and 5.0, movie 2 (1991, Drama) rated 3.0                            *)
ExampleDataset ==
    <<[movieId |-> 1, movie_year |-> 1990, genres |-> <<Comedy>>, rating |-> 8],
      [movieId |-> 1, movie_year |-> 1990, genres |-> <<Comedy>>, rating |-> 10],
      [movieId |-> 2, movie_year |-> 1991, genres |-> <<Drama>>, rating |-> 6]>>

Functions == {"filter_time_interval", "filter_production_date",
              "get_tags_per_movieId", "aggregate_data", "generate_plots",
              "find_closest_match_ut"}

Init ==
    /\ pc = "call"
    /\ ret = <<>>
    /\ exc = "none"
    /\ movies_df_copy = <<>>
    /\ filter_df = <<>>
    /\ refiltered = <<>>
    /\ fn \in Functions
    /\ \/ /\ fn = "filter_time_interval"
          /\ df \in SeqsUpTo(TimedRows, MaxLen)
          /\ lo \in 1..MaxTime /\ hi \in 1..MaxTime
          /\ movies_df = <<>> /\ tags_df = <<>> /\ genre = <<>>
       \/ /\ fn = "filter_production_date"
          /\ df \in SeqsUpTo(YearRows, MaxLen)
          /\ lo \in Years /\ hi \in Years
          /\ movies_df = <<>> /\ tags_df = <<>> /\ genre = <<>>
       \/ /\ fn = "get_tags_per_movieId"
          /\ tags_df \in SeqsUpTo(TagRows, MaxLen)
          /\ lo \in 1..(MaxMovieId + 1) /\ hi = 0
          /\ df = <<>> /\ movies_df = <<>> /\ genre = <<>>
       \/ /\ fn = "aggregate_data"
          /\ df \in SeqsUpTo(RatingRows, MaxLen)
          /\ movies_df \in SeqsUpTo(CatalogRows, MaxCatalog)
          /\ lo = 0 /\ hi = 0 /\ tags_df = <<>> /\ genre = <<>>
       \/ /\ fn = "generate_plots"
          /\ df \in SeqsUpTo(SummaryRows, MaxLen)
          /\ movies_df = df
          /\ lo = 0 /\ hi \in 0..(MaxLen + 1)
          /\ tags_df = <<>> /\ genre = <<>>
       \/ /\ fn = "find_closest_match_ut"
          /\ df \in SeqsUpTo(DatasetRows, MaxDataset) \cup {ExampleDataset}
          /\ genre \in Queries
          /\ lo \in ProdYears /\ hi = 0
          /\ movies_df = <<>> /\ tags_df = <<>>

(* ----------------------------- actions -------------------------------- *)
Run_filter_time_interval ==
    /\ pc = "call" /\ fn = "filter_time_interval"
    /\ \E r \in filter_time_interval(df, lo, hi) : ret' = r
    /\ pc' = "done"
    /\ UNCHANGED <<fn, df, movies_df, tags_df, lo, hi, genre, exc,
                   movies_df_copy, filter_df, refiltered>>

Run_filter_time_interval_again ==
    /\ pc = "done" /\ fn = "filter_time_interval"
    /\ \E r \in filter_time_interval(ret, lo, hi) : refiltered' = r
    /\ pc' = "again"
    /\ UNCHANGED <<fn, df, movies_df, tags_df, lo, hi, genre, ret, exc,
                   movies_df_copy, filter_df>>

Run_filter_production_date ==
    /\ pc = "call" /\ fn = "filter_production_date"
    /\ ret' = filter_production_date(df, lo, hi)
    /\ pc' = "done"
    /\ UNCHANGED <<fn, df, movies_df, tags_df, lo, hi, genre, exc,
                   movies_df_copy, filter_df, refiltered>>

Run_get_tags_per_movieId ==
    /\ pc = "call" /\ fn = "get_tags_per_movieId"
    /\ LET c == get_tags_per_movieId_call(<<lo, tags_df>>)
       IN  ret' = c.val /\ exc' = c.exc
    /\ pc' = "done"
    /\ UNCHANGED <<fn, df, movies_df, tags_df, lo, hi, genre,
                   movies_df_copy, filter_df, refiltered>>

Run_aggregate_data ==
    /\ pc = "call" /\ fn = "aggregate_data"
    /\ LET c == aggregate_data_call(<<df, movies_df>>)
       IN  ret' = c.val /\ exc' = c.exc /\ movies_df_copy' = c.movies_df_copy
    /\ pc' = "done"
    /\ UNCHANGED <<fn, df, movies_df, tags_df, lo, hi, genre,
                   filter_df, refiltered>>

Run_generate_plots ==
    /\ pc = "call" /\ fn = "generate_plots"
    /\ \E p \in generate_plots(df, hi) : movies_df' = p.movies_df /\ exc' = p.exc
    /\ pc' = "done"
    /\ UNCHANGED <<fn, df, tags_df, lo, hi, genre, ret,
                   movies_df_copy, filter_df, refiltered>>

Run_find_closest_match_ut ==
    /\ pc = "call" /\ fn = "find_closest_match_ut"
    /\ \E c \in find_closest_match_ut(genre, lo, df) :
          ret' = c.ret /\ exc' = c.exc /\ filter_df' = c.filter_df
    /\ pc' = "done"
    /\ UNCHANGED <<fn, df, movies_df, tags_df, lo, hi, genre,
                   movies_df_copy, refiltered>>

Next ==
    \/ Run_filter_time_interval
    \/ Run_filter_time_interval_again
    \/ Run_filter_production_date
    \/ Run_get_tags_per_movieId
    \/ Run_aggregate_data
    \/ Run_generate_plots
    \/ Run_find_closest_match_ut

Spec == Init /\ [][Next]_vars

(* ---------------------------- properties ------------------------------ *)
Done(f) == fn = f /\ pc # "call"

Count(frame, x) == Cardinality({i \in DOMAIN frame : frame[i] = x})

Summary == IF Len(ret) = 2 THEN ret[2] ELSE <<>>

Subset == IF Len(ret) = 2 THEN ret[1] ELSE <<>>

IsSubstring(s, pat) ==
    \E k \in 1..(Len(s) + 1) :
        k + Len(pat) - 1 <= Len(s) /\ SubSeq(s, k, k + Len(pat) - 1) = pat

(* C1: find_closest_match_ut completes without raising and returns the     *)
(* pair (filtered subset, summary); on the example data set with genre     *)
(* Comedy and prod_year 1990 the summary holds movie 1 only, with          *)
(* total_views 2, average_rating 4.5 (9 half-stars) and tags ["funny"].    *)
C1_CompletesAndReturns ==
    Done("find_closest_match_ut") =>
        /\ exc = "none"
        /\ Len(ret) = 2
        /\ (df = ExampleDataset /\ genre = Comedy /\ lo = 1990) =>
              /\ Len(ret[2]) = 1
              /\ ret[2][1].movieId = 1
              /\ ret[2][1].total_views = 2
              /\ ret[2][1].average_rating = [num |-> 9, den |-> 1]
              /\ ret[2][1].tags = <<"funny">>

(* C2: in every row of the frame aggregate_data builds (movies_df_copy,    *)
(* the frame it returns) and of the frame returned, total_views is the     *)
(* number of records of the filtered ratings with the row's movieId and    *)
(* average_rating times total_views is the sum of those records' ratings.  *)
C2_RowStats(r) ==
    LET mine == {i \in DOMAIN df : df[i].movieId = r.movieId}
    IN  /\ r.total_views = Cardinality(mine)
        /\ r.average_rating.den > 0
        /\ r.average_rating.num * r.total_views =
               SumRatings(SelectSeq(df, LAMBDA x : x.movieId = r.movieId))
                   * r.average_rating.den

C3_InnerJoin ==
    Done("aggregate_data") =>
        \A m \in 1..MaxMovieId :
            (\E i \in DOMAIN ret : ret[i].movieId = m) <=>
                /\ \E i \in DOMAIN movies_df : movies_df[i].movieId = m
                /\ \E i \in DOMAIN df : df[i].movieId = m

(* C4: tag attachment in aggregate_data never raises, and every output     *)
(* row has a tags field listing the tag records of its movieId (empty      *)
(* when there is none).                                                    *)
C4_TagsNeverRaise ==
    Done("aggregate_data") =>
        /\ exc = "none"
        /\ \A i \in DOMAIN ret :
              /\ "tags" \in DOMAIN ret[i]
              /\ ret[i].tags = get_tags_per_movieId(ret[i].movieId, tags_df)

(* C5: filter_time_interval returns exactly the records with               *)
(* start <= datetime_rating <= end, each as often as it occurs in the      *)
(* input, raises nothing, and returns an empty frame when none matches.    *)
C5_ExactInterval ==
    Done("filter_time_interval") =>
        /\ exc = "none"
        /\ \A x \in Range(df) \cup Range(ret) :
              Count(ret, x) =
                  IF lo <= x.datetime_rating /\ x.datetime_rating <= hi
                  THEN Count(df, x) ELSE 0
        /\ (\A i \in DOMAIN df :
                ~(lo <= df[i].datetime_rating /\ df[i].datetime_rating <= hi))
              => ret = <<>>

C5_Witness ==
    /\ Done("filter_time_interval")
    /\ lo < hi
    /\ \E i, j \in DOMAIN ret :
          ret[i].datetime_rating = lo /\ ret[j].datetime_rating = hi
    /\ Len(ret) < Len(df)

(* C6: filter_production_date returns exactly the records with             *)
(* p1 <= movie_year <= p2 in their input order; with p1 > p2 the result    *)
(* is empty.                                                               *)
C6_ExactYearsInOrder ==
    Done("filter_production_date") =>
        LET idx == {i \in DOMAIN df : lo <= df[i].movie_year /\ df[i].movie_year <= hi}
            nth(k) == CHOOSE i \in idx : Cardinality({j \in idx : j <= i}) = k
        IN  /\ Len(ret) = Cardinality(idx)
            /\ \A k \in 1..Len(ret) : ret[k] = df[nth(k)]
            /\ lo > hi => ret = <<>>

C6_Witness ==
    /\ Done("filter_production_date")
    /\ Len(ret) = 2 /\ Len(df) = 3
    /\ ret[1].movie_year = hi /\ ret[2].movie_year = lo /\ lo < hi
    /\ df[2].movie_year > hi

(* C7: the subset find_closest_match_ut returns is exactly the flattened   *)
(* (movie, genre) rows whose movie_year is in [decade, decade+9] and whose *)
(* genre has the requested genre as a substring.                           *)
C7_Expected ==
    Flatten([i \in 1..Len(df) |->
        IF decade_of(lo) <= df[i].movie_year /\ df[i].movie_year <= decade_of(lo) + 9
        THEN LET gs == SelectSeq(df[i].genres, LAMBDA g : IsSubstring(g, genre))
             IN  [j \in 1..Len(gs) |-> [df[i] EXCEPT !.genres = gs[j]]]
        ELSE <<>>])

C7_SubsetBySubstring ==
    Done("find_closest_match_ut") => Subset = C7_Expected

(* C8 as stated: the selection is the first min(top, n) rows of the        *)
(* summary ordered by total_views descending, rows of equal total_views    *)
(* in input order.                                                         *)
C8_StableTopN ==
    Done("generate_plots") =>
        LET n == Len(df)
            rank(i) == 1 + Cardinality({j \in 1..n :
                          \/ df[j].total_views > df[i].total_views
                          \/ df[j].total_views = df[i].total_views /\ j < i})
        IN  /\ Len(movies_df) = Min(hi, n)
            /\ \A i \in 1..n : rank(i) <= Len(movies_df) => movies_df[rank(i)] = df[i]

(* C8 amended: for top >= 0 the selection holds min(top, n) rows of the    *)
(* summary, in non-increasing total_views, and every selected row has      *)
(* total_views >= every row left out; the order among equal total_views    *)
(* is not fixed to the input order.                                        *)
C8_TopN ==
    Done("generate_plots") =>
        /\ Len(movies_df) = Min(hi, Len(df))
        /\ \A i \in 1..(Len(movies_df) - 1) :
              movies_df[i].total_views >= movies_df[i + 1].total_views
        /\ \A x \in Range(movies_df) : Count(movies_df, x) <= Count(df, x)
        /\ \A x \in Range(df) : Count(movies_df, x) < Count(df, x) =>
              \A i \in DOMAIN movies_df : movies_df[i].total_views >= x.total_views

C8_Witness ==
    /\ Done("generate_plots")
    /\ hi = 2 /\ Len(df) = 3
    /\ df[1].total_views < df[2].total_views
    /\ df[1].total_views = df[3].total_views
    /\ movies_df = <<df[2], df[3]>>
    /\ df[1] # df[3]

(* C9: the result of filter_time_interval is in non-increasing             *)
(* datetime_rating, and filtering the result again with the same interval  *)
(* yields the same records.                                                *)
C9_SortedIdempotent ==
    Done("filter_time_interval") =>
        /\ \A i \in 1..(Len(ret) - 1) :
              ret[i].datetime_rating >= ret[i + 1].datetime_rating
        /\ pc = "again" =>
              /\ \A x \in Range(ret) \cup Range(refiltered) :
                    Count(refiltered, x) = Count(ret, x)
              /\ \A i \in 1..(Len(refiltered) - 1) :
                    refiltered[i].datetime_rating >= refiltered[i + 1].datetime_rating

C9_Witness ==
    /\ fn = "filter_time_interval" /\ pc = "again"
    /\ Len(ret) = 2 /\ Len(df) = 3
    /\ ret[1].datetime_rating > ret[2].datetime_rating
    /\ df[1].datetime_rating < df[2].datetime_rating
    /\ ret = <<df[2], df[1]>>

(* C10: in the summary find_closest_match_ut produces, every movie with a  *)
(* matching (movie, genre) row has exactly one row, whose total_views is   *)
(* the number of the movie's rating records, also when several of its      *)
(* genres match.                                                           *)
C10_NoDuplicates ==
    Done("find_closest_match_ut") =>
        \A m \in 1..MaxMovieId :
            (\E i \in DOMAIN C7_Expected : C7_Expected[i].movieId = m) =>
                /\ Cardinality({i \in DOMAIN Summary : Summary[i].movieId = m}) = 1
                /\ \A i \in DOMAIN Summary : Summary[i].movieId = m =>
                      Summary[i].total_views =
                          Cardinality({j \in DOMAIN df :
                              /\ df[j].movieId = m
                              /\ decade_of(lo) <= df[j].movie_year
                              /\ df[j].movie_year <= decade_of(lo) + 9
                              /\ \E k \in DOMAIN df[j].genres :
                                    IsSubstring(df[j].genres[k], genre)})

====
